---- MODULE Spec2Model ----
(***************************************************************************)
(* A model of the retry layer of the Playwright test framework:            *)
(*   RetryUtils.retry / isFatal / computeDelay / sleep                     *)
(*   (src/src/utils/retryUtils.ts).                                        *)
(*                                                                         *)
(* Strings are sequences of one-character strings, so that                 *)
(* String.prototype.includes is a real substring search.                   *)
(* Delays are rational numbers of milliseconds (Math.random() * base * 0.5 *)
(* is not an integer); they are carried exactly, as integer multiples of   *)
(* 1/Unit ms.                                                              *)
(***************************************************************************)
EXTENDS Integers, Sequences, FiniteSets, TLC

\* ------------------------------------------------------------------ bounds
\* the largest retry count an options object carries
MaxRetries == 3
\* Math.random() is drawn from { k / JitterDen : k \in 0 .. JitterDen-1 }
JitterDen == 4
\* the magnitude of the explicit baseDelayMs values
MaxBase == 2
\* the explicit positive maxDelayMs value
MaxCap == 3
\* the attempt numbers computeDelay is applied to on its own
MaxAttempt == 4
\* the largest retries option handed to an ElementUtils method
MaxActionRetries == 2
\* the largest timeout of a wait, in ms
MaxTimeout == 2
\* the longest time an awaited call takes beyond what it must, in ms
MaxTick == 1
\* the most polls of waitForText that are followed
MaxPolls == 3

\* ------------------------------------------------------- program constants
\* retryUtils.ts:90-94, the destructuring defaults
DefaultRetries == 2
DefaultBaseDelayMs == 3000
DefaultMaxDelayMs == 9000
DefaultExponential == TRUE
DefaultJitter == TRUE
\* retryUtils.ts:211, the jitter factor 0.5 = 1 / JitterHalf
JitterHalf == 2

\* the JavaScript value undefined
Undefined == "undefined"

\* one millisecond, in the unit delays are carried in
Unit == JitterHalf * JitterDen

Min(a, b) == IF a <= b THEN a ELSE b

\* ------------------------------------------------------------------ strings
\* String.prototype.includes
Includes(s, p) ==
  \E i \in 0 .. (Len(s) - Len(p)) : SubSeq(s, i + 1, i + Len(p)) = p

\* retryUtils.ts:166-184
fatalPatterns == <<
    <<"I","n","v","a","l","i","d"," ","s","e","l","e","c","t","o","r">>,
    <<"M","a","l","f","o","r","m","e","d"," ","s","e","l","e","c","t","o","r">>,
    <<"n","o","t"," ","a"," ","f","u","n","c","t","i","o","n">>,
    <<"T","y","p","e","E","r","r","o","r">>,
    <<"R","e","f","e","r","e","n","c","e","E","r","r","o","r">>,
    <<"C","a","n","n","o","t"," ","r","e","a","d"," ","p","r","o","p","e","r","t","i","e","s">>,
    <<"C","a","n","n","o","t"," ","f","i","n","d"," ","m","o","d","u","l","e">>,
    <<"E","n","v","i","r","o","n","m","e","n","t"," ","c","o","n","f","i","g","u","r","a","t","i","o","n"," ","i","n","v","a","l","i","d">>,
    <<"b","r","o","w","s","e","r"," ","h","a","s"," ","b","e","e","n"," ","c","l","o","s","e","d">>,
    <<"T","a","r","g","e","t"," ","p","a","g","e">>,
    <<"C","o","n","t","e","x","t"," ","h","a","s"," ","b","e","e","n"," ","c","l","o","s","e","d">>,
    <<"E","x","e","c","u","t","i","o","n"," ","c","o","n","t","e","x","t"," ","w","a","s"," ","d","e","s","t","r","o","y","e","d">>,
    <<"E","l","e","m","e","n","t"," ","n","o","t"," ","e","d","i","t","a","b","l","e">>,
    <<"E","l","e","m","e","n","t"," ","d","e","t","a","c","h","e","d">>,
    <<"N","a","v","i","g","a","t","i","o","n"," ","f","a","i","l","e","d">>,
    <<"N","o","d","e"," ","i","s"," ","e","i","t","h","e","r"," ","n","o","t"," ","v","i","s","i","b","l","e"," ","o","r"," ","n","o","t"," ","a","n"," ","H","T","M","L","E","l","e","m","e","n","t">>,
    <<"n","e","t",":",":","E","R","R">>
  >>

\* the mutant of isFatal: the pattern list is never consulted
\* a mutant of isFatal: every 'not visible' message is fatal as well
isFatalNotVisible(message) ==
  \/ Includes(message, <<"n","o","t"," ","v","i","s","i","b","l","e">>)
  \/ \E n \in DOMAIN fatalPatterns : Includes(message, fatalPatterns[n])

isFatalNever(message) == FALSE

\* retryUtils.ts:165-187
isFatal(message) ==
  \E n \in 1 .. Len(fatalPatterns) : Includes(message, fatalPatterns[n])

\* -------------------------------------------------------- thrown values
\* The values fn() rejects with.  Each is a JavaScript value: an Error
\* object (a constructor name and a message) or a primitive string.
\* elementUtils.ts:113: the label of the locator in the log and error lines
Label == <<"S","a","v","e">>
\* elementUtils.ts:135
BoundingBoxMessage == <<"B","o","u","n","d","i","n","g"," ","b","o","x"," ","n","o","t"," ","f","o","u","n","d"," ","→"," ">>

ThrownIds ==
  { "ErrTimeout", "ErrNotVisible", "ErrInvalidSelector", "ErrNetReset",
    "StrElementDetached", "TypeErrorEmpty", "ErrNodeNotVisible" }

ThrownValue(id) ==
  CASE id = "ErrTimeout" ->
         [ isError |-> TRUE, name |-> <<"E","r","r","o","r">>,
           text |-> <<"T","i","m","e","o","u","t"," ","3","0","0","0","0","m","s"," ","e","x","c","e","e","d","e","d">> ]
    [] id = "ErrNotVisible" ->
         [ isError |-> TRUE, name |-> <<"E","r","r","o","r">>,
           text |-> <<"e","l","e","m","e","n","t"," ","n","o","t"," ","v","i","s","i","b","l","e">> ]
    [] id = "ErrInvalidSelector" ->
         [ isError |-> TRUE, name |-> <<"E","r","r","o","r">>,
           text |-> <<"I","n","v","a","l","i","d"," ","s","e","l","e","c","t","o","r",":"," ","/","/","b","a","d","[","[">> ]
    [] id = "ErrNetReset" ->
         [ isError |-> TRUE, name |-> <<"E","r","r","o","r">>,
           text |-> <<"n","e","t",":",":","E","R","R","_","C","O","N","N","E","C","T","I","O","N","_","R","E","S","E","T">> ]
    [] id = "StrElementDetached" ->
         [ isError |-> FALSE, name |-> <<>>,
           text |-> <<"E","l","e","m","e","n","t"," ","d","e","t","a","c","h","e","d">> ]
    [] id = "TypeErrorEmpty" ->
         [ isError |-> TRUE, name |-> <<"T","y","p","e","E","r","r","o","r">>,
           text |-> <<>> ]
    [] id = "ErrBoundingBox" ->
         [ isError |-> TRUE, name |-> <<"E","r","r","o","r">>,
           text |-> BoundingBoxMessage \o Label ]
    [] id = "ErrNodeNotVisible" ->
         [ isError |-> TRUE, name |-> <<"E","r","r","o","r">>,
           text |-> <<"N","o","d","e"," ","i","s"," ","e","i","t","h","e","r"," ","n","o","t"," ","v","i","s","i","b","l","e"," ","o","r"," ","n","o","t"," ","a","n"," ","H","T","M","L","E","l","e","m","e","n","t">> ]

\* String(error): Error.prototype.toString for an Error object, the string
\* itself for a primitive string
StringOf(v) ==
  IF ~v.isError THEN v.text
  ELSE IF v.text = <<>> THEN v.name
  ELSE v.name \o <<":", " ">> \o v.text

\* retryUtils.ts:115   error?.message || String(error)
\* (a primitive string has no message property; "" is falsy)
RetryMessage(v) ==
  IF v.isError /\ v.text # <<>> THEN v.text ELSE StringOf(v)
MessageOf(id) == RetryMessage(ThrownValue(id))

\* the thrown values whose message isFatal classifies as fatal
FatalIds == { id \in ThrownIds : isFatal(MessageOf(id)) }

\* ------------------------------------------------ ErrorHandler classifiers
UpperCase == <<"A","B","C","D","E","F","G","H","I","J","K","L","M","N","O","P","Q","R","S","T","U","V","W","X","Y","Z">>
LowerCase == <<"a","b","c","d","e","f","g","h","i","j","k","l","m","n","o","p","q","r","s","t","u","v","w","x","y","z">>
\* String.prototype.toLowerCase, on the ASCII letters
ToLowerCase(s) ==
  [ i \in DOMAIN s |->
      IF \E n \in DOMAIN UpperCase : UpperCase[n] = s[i]
      THEN LowerCase[CHOOSE n \in DOMAIN UpperCase : UpperCase[n] = s[i]]
      ELSE s[i] ]

\* errorHandler.ts:163, 176, 185   error?.message || ""
\* (a primitive string has no message property)
HandlerMessage(v) == IF v.isError THEN v.text ELSE <<>>
HandlerMessageOf(id) == HandlerMessage(ThrownValue(id))

\* errorHandler.ts:162-170
isNetworkError(msg) ==
  \/ Includes(msg, <<"n","e","t",":",":">>)
  \/ Includes(msg, <<"E","R","R","_">>)
  \/ Includes(msg, <<"E","C","O","N","N","R","E","S","E","T">>)
  \/ Includes(msg, <<"E","C","O","N","N","R","E","F","U","S","E","D">>)

\* the mutant of isTimeoutError: the message is not lower-cased first
isTimeoutErrorCaseSensitive(msg) ==
  Includes(msg, <<"t","i","m","e","o","u","t">>)

\* errorHandler.ts:175-177
isTimeoutError(msg) ==
  Includes(ToLowerCase(msg), <<"t","i","m","e","o","u","t">>)

\* errorHandler.ts:184-192
isElementError(msg) ==
  \/ Includes(msg, <<"e","l","e","m","e","n","t">>)
  \/ Includes(msg, <<"s","e","l","e","c","t","o","r">>)
  \/ Includes(msg, <<"n","o","t"," ","v","i","s","i","b","l","e">>)
  \/ Includes(msg, <<"n","o","t"," ","e","n","a","b","l","e","d">>)

\* errorHandler.ts:200-209
isFatalPlaywrightError(msg) ==
  \/ Includes(msg, <<"T","a","r","g","e","t"," ","p","a","g","e">>)
  \/ Includes(msg, <<"b","r","o","w","s","e","r"," ","h","a","s"," ","b","e","e","n"," ","c","l","o","s","e","d">>)
  \/ Includes(msg, <<"C","o","n","t","e","x","t"," ","h","a","s"," ","b","e","e","n"," ","c","l","o","s","e","d">>)
  \/ Includes(msg, <<"N","a","v","i","g","a","t","i","o","n"," ","f","a","i","l","e","d">>)
  \/ Includes(msg, <<"I","n","v","a","l","i","d"," ","s","e","l","e","c","t","o","r">>)

\* the thrown values ErrorHandler puts in a retryable category
TimeoutIds == { id \in ThrownIds : isTimeoutError(HandlerMessageOf(id)) }
ElementIds == { id \in ThrownIds : isElementError(HandlerMessageOf(id)) }

\* ------------------------------------------------------------ computeDelay
RECURSIVE Pow(_, _)
\* Math.pow(b, e) for an integer e >= 0
Pow(b, e) == IF e <= 0 THEN 1 ELSE b * Pow(b, e - 1)

\* the mutant of backoff: the exponent is attempt instead of attempt - 1
backoffOffByOne(base, attempt, exponential) ==
  IF exponential THEN base * Pow(2, attempt) ELSE base * attempt

\* retryUtils.ts:206-208, in ms
backoff(base, attempt, exponential) ==
  IF exponential THEN base * Pow(2, attempt - 1) ELSE base * attempt

\* retryUtils.ts:211   Math.random() * base * 0.5, where Math.random() is
\* k / JitterDen; the result is in units of 1/Unit ms
jitterAmount(base, k) == k * base

\* retryUtils.ts:198-216; base and max in ms, the result in units of
\* 1/Unit ms
computeDelay(base, attempt, max, exponential, jitter, k) ==
  LET delay0 == backoff(base, attempt, exponential) * Unit
      delay1 == IF jitter THEN delay0 + jitterAmount(base, k) ELSE delay0
  IN  Min(delay1, max * Unit)

\* ------------------------------------------------------------------ state
VARIABLES
  options,    \* the RetryOptions object retry was called with (84-85)
  pc,         \* the position of the retry call
  attempt,    \* the loop variable (100)
  lastError,  \* line 98
  error,      \* the error caught at line 113
  delay,      \* the const of line 139, in units of 1/Unit ms; 0 out of scope
  result,     \* the value retry resolved with
  thrown,     \* the value retry rejected with
  trace,      \* the calls retry has made and their outcomes, in order
  callbackErrs,  \* the number of callback errors caught and logged (132-134)
  cdArgs,     \* the arguments of a computeDelay call made on its own
  cdRet,      \* its return value, <<>> before the call
  clsErr,     \* the error value handed to the classifiers
  clsRet,     \* what each classifier returned for it, <<>> before the calls
  action,     \* the ElementUtils method that was called
  step,       \* the statement of its retried body that runs next
  box,        \* the boundingBox() of this attempt (elementUtils.ts:134)
  mouseAt,    \* where page.mouse.click was dispatched in this attempt
  waitOp,     \* the WaitUtils method that was called
  waitArgs,   \* its arguments: expected, timeout, interval, name
  now,        \* Date.now(), in ms
  start,      \* the const start of the wait (waitUtils.ts:113, 146, 245)
  polls,      \* the texts waitForText has read and the elapsed time of each
  waitLog,    \* the logger.error line of the wait, <<>> if none
  waitErr,    \* the error the wait threw
  store,      \* Runtime.store: the own properties of the object
  proto,      \* the prototype of the Runtime.store object
  ideal,      \* history: the value last set under each key and not removed
              \* or cleared since
  touched,    \* history: the keys set since the last clear (or the start)
  everSet,    \* history: the keys set at any time
  lastOp,     \* the last Runtime call, with its arguments and return value
  pending,    \* per flow: the key and value a BasePage.store* call has
              \* read and not yet handed to Runtime.set
  hOp,        \* the ErrorHandler method that was called
  hOpts,      \* its options: the fields that are present
  fnOutcome,  \* history: what the wrapped function did
  hLog        \* the logger.error lines of the handler, in order

\* the state of the operations other than retry and computeDelay
waitVars == << waitOp, waitArgs, now, start, polls, waitLog, waitErr >>
runtimeVars ==
  << store, proto, ideal, touched, everSet, lastOp, pending >>
handleVars == << hOp, hOpts, fnOutcome, hLog >>
utilVars == << runtimeVars, handleVars >>
otherVars ==
  << clsErr, clsRet, action, step, box, mouseAt, waitVars, utilVars >>

vars ==
  << options, pc, attempt, lastError, error, delay, result, thrown, trace,
     callbackErrs, cdArgs, cdRet, otherVars >>

retryVars ==
  << options, pc, attempt, lastError, error, delay, result, thrown, trace,
     callbackErrs >>

\* the values fn() resolves with
Values == { "v1", "v2" }

\* ---------------------------------------------------------------- options
\* retryUtils.ts:27-34: every field is optional; onRetry is a function
OptionFields ==
  { "retries", "baseDelayMs", "maxDelayMs", "exponential", "jitter",
    "onRetry" }

FullOptions ==
  [ retries : (0 - 1) .. MaxRetries,
    baseDelayMs : { 0 - MaxBase, 0, MaxBase },
    maxDelayMs : { 0 - 1, MaxCap },
    exponential : BOOLEAN,
    jitter : BOOLEAN,
    onRetry : { "callback" } ]

\* an options object: any subset of the fields
OptionsSet ==
  { [ f \in D |-> full[f] ] : full \in FullOptions, D \in SUBSET OptionFields }

\* retryUtils.ts:89-96, the destructuring with defaults
Has(f) == f \in DOMAIN options
\* the mutant of retries: the default counts the retries after the first
\* attempt
retriesAfterFirst ==
  IF Has("retries") THEN options.retries ELSE DefaultRetries + 1
retries == IF Has("retries") THEN options.retries ELSE DefaultRetries
baseDelayMs ==
  IF Has("baseDelayMs") THEN options.baseDelayMs ELSE DefaultBaseDelayMs
maxDelayMs ==
  IF Has("maxDelayMs") THEN options.maxDelayMs ELSE DefaultMaxDelayMs
exponential ==
  IF Has("exponential") THEN options.exponential ELSE DefaultExponential
jitter == IF Has("jitter") THEN options.jitter ELSE DefaultJitter
onRetry == Has("onRetry")

Event(ev, val) == [ ev |-> ev, attempt |-> attempt, val |-> val ]

NoArgs ==
  [ base |-> 0, attempt |-> 0, max |-> 0, exponential |-> FALSE,
    jitter |-> FALSE, k |-> 0 ]

None == "none"
\* no error thrown
NoError == << >>
\* no wait is running
WaitIdle ==
  /\ waitOp = None
  /\ waitArgs = << >>
  /\ now = 0
  /\ start = 0
  /\ polls = <<>>
  /\ waitLog = <<>>
  /\ waitErr = NoError
\* no box: boundingBox() was not called, or returned null
NoBox == << >>

\* the property names used as keys of the Runtime store; toString is a
\* member of Object.prototype, __proto__ its accessor property
Keys == { "k1", "toString", "__proto__" }
\* the key has no own property in the object
Absent == "absent"
\* Object.prototype, the prototype of an object literal
ObjectPrototype == "Object.prototype"
\* the function Object.prototype.toString
ToStringFunction == "Object.prototype.toString"
\* the logical flows that share the store
Flows == { "A", "B" }
NoPending == << >>
NoOp == [ op |-> None, key |-> None, val |-> None, ret |-> None ]
\* validationUtils.ts:184: private static store = {}, and no call of
\* BasePage.store* or ErrorHandler in progress
RuntimeIdle ==
  /\ store = [ k \in Keys |-> Absent ]
  /\ proto = ObjectPrototype
  /\ ideal = [ k \in Keys |-> Absent ]
  /\ touched = {}
  /\ everSet = {}
  /\ lastOp = NoOp
  /\ pending = [ f \in Flows |-> NoPending ]
\* the wrapped function of ErrorHandler.handle has not settled
NoOutcome == << >>
HandleIdle ==
  /\ hOp = None
  /\ hOpts = << >>
  /\ fnOutcome = NoOutcome
  /\ hLog = <<>>
UtilIdle ==
  /\ RuntimeIdle
  /\ HandleIdle
\* no classifier, ElementUtils method or wait is running
OthersIdle ==
  /\ clsErr = None
  /\ clsRet = <<>>
  /\ action = None
  /\ step = None
  /\ box = NoBox
  /\ mouseAt = <<>>
  /\ WaitIdle
  /\ UtilIdle

\* retryUtils.ts:83-100: retry(fn, options) has been called, the defaults
\* are applied, lastError is undefined and the loop starts at attempt 1
Init ==
  /\ options \in OptionsSet
  /\ pc = "for"
  /\ attempt = 1
  /\ lastError = Undefined
  /\ error = Undefined
  /\ delay = 0
  /\ result = Undefined
  /\ thrown = Undefined
  /\ trace = <<>>
  /\ callbackErrs = 0
  /\ cdArgs = NoArgs
  /\ cdRet = <<>>
  /\ OthersIdle

\* ---------------------------------------------------------------- actions
\* the mutant of InvokeFn: a do-while loop, fn() is called once whatever
\* retries is
InvokeFnAtLeastOnce ==
  /\ pc = "for"
  /\ (attempt <= retries \/ attempt = 1)
  /\ pc' = "fn"
  /\ trace' = Append(trace, Event("fn", Undefined))
  /\ UNCHANGED << options, attempt, lastError, error, delay, result, thrown,
                  cdArgs, cdRet, callbackErrs,
                  otherVars >>

\* retryUtils.ts:100-104: the loop test holds and fn() is called
InvokeFn ==
  /\ pc = "for"
  /\ attempt <= retries
  /\ pc' = "fn"
  /\ trace' = Append(trace, Event("fn", Undefined))
  /\ UNCHANGED << options, attempt, lastError, error, delay, result, thrown,
                  cdArgs, cdRet, callbackErrs,
                  otherVars >>

\* the mutant of FnResolves: the return of line 110 is missing, the loop
\* goes on
FnResolvesNoReturn(v) ==
  /\ pc = "fn"
  /\ pc' = "for"
  /\ attempt' = attempt + 1
  /\ result' = v
  /\ trace' = Append(trace, Event("resolve", v))
  /\ UNCHANGED << options, lastError, error, delay, thrown, cdArgs, cdRet,
                  callbackErrs,
                  otherVars >>

\* retryUtils.ts:104-110: fn() resolves and retry returns its value
FnResolves(v) ==
  /\ pc = "fn"
  /\ pc' = "returned"
  /\ result' = v
  /\ trace' = Append(trace, Event("resolve", v))
  /\ UNCHANGED << options, attempt, lastError, error, delay, thrown, cdArgs,
                  cdRet, callbackErrs,
                  otherVars >>

\* the mutant of FnRejects: lastError keeps the first error caught
FnRejectsKeepsFirst(e) ==
  /\ pc = "fn"
  /\ pc' = "catch"
  /\ error' = e
  /\ lastError' = IF lastError = Undefined THEN e ELSE lastError
  /\ trace' = Append(trace, Event("reject", e))
  /\ UNCHANGED << options, attempt, delay, result, thrown, cdArgs, cdRet,
                  callbackErrs,
                  otherVars >>

\* retryUtils.ts:113-116: fn() rejects and the error is caught
FnRejects(e) ==
  /\ pc = "fn"
  /\ pc' = "catch"
  /\ error' = e
  /\ lastError' = e
  /\ trace' = Append(trace, Event("reject", e))
  /\ UNCHANGED << options, attempt, delay, result, thrown, cdArgs, cdRet,
                  callbackErrs,
                  otherVars >>

\* the mutant of ThrowFatal: the throw of line 121 is missing, the fatal
\* error is only logged
ThrowFatalSwallowed ==
  /\ pc = "catch"
  /\ isFatal(MessageOf(error))
  /\ pc' = IF onRetry THEN "onRetry" ELSE "backoff"
  /\ trace' = Append(trace, Event("classified", "fatal"))
  /\ UNCHANGED << options, attempt, lastError, error, delay, result, thrown,
                  cdArgs, cdRet, callbackErrs,
                  otherVars >>

\* retryUtils.ts:119-122: the message is fatal and the error is rethrown
ThrowFatal ==
  /\ pc = "catch"
  /\ isFatal(MessageOf(error))
  /\ pc' = "thrown"
  /\ thrown' = error
  /\ trace' = Append(trace, Event("classified", "fatal"))
  /\ UNCHANGED << options, attempt, lastError, error, delay, result, cdArgs,
                  cdRet, callbackErrs,
                  otherVars >>

\* retryUtils.ts:119-130: the message is not fatal, the failure is logged
LogFailure ==
  /\ pc = "catch"
  /\ ~isFatal(MessageOf(error))
  /\ pc' = IF onRetry THEN "onRetry" ELSE "backoff"
  /\ trace' = Append(trace, Event("classified", "retryable"))
  /\ UNCHANGED << options, attempt, lastError, error, delay, result, thrown,
                  cdArgs, cdRet, callbackErrs,
                  otherVars >>

\* retryUtils.ts:131: onRetry(attempt, error) is called
CallOnRetry ==
  /\ pc = "onRetry"
  /\ pc' = "inOnRetry"
  /\ trace' = Append(trace, Event("onRetry", error))
  /\ UNCHANGED << options, attempt, lastError, error, delay, result, thrown,
                  cdArgs, cdRet, callbackErrs,
                  otherVars >>

\* retryUtils.ts:131: the callback completes
OnRetryReturns ==
  /\ pc = "inOnRetry"
  /\ pc' = "backoff"
  /\ trace' = Append(trace, Event("onRetryDone", Undefined))
  /\ UNCHANGED << options, attempt, lastError, error, delay, result, thrown,
                  cdArgs, cdRet, callbackErrs,
                  otherVars >>

\* the mutant of OnRetryThrows: the try/catch of lines 131-134 is missing,
\* the callback's error leaves retry
OnRetryThrowsUncaught ==
  /\ pc = "inOnRetry"
  /\ pc' = "thrown"
  /\ thrown' = "callbackErr"
  /\ callbackErrs' = callbackErrs + 1
  /\ trace' = Append(trace, Event("onRetryDone", Undefined))
  /\ UNCHANGED << options, attempt, lastError, error, delay, result, cdArgs,
                  cdRet,
                  otherVars >>

\* retryUtils.ts:132-134: the callback throws; the error is caught and logged
OnRetryThrows ==
  /\ pc = "inOnRetry"
  /\ pc' = "backoff"
  /\ callbackErrs' = callbackErrs + 1
  /\ trace' = Append(trace, Event("onRetryDone", Undefined))
  /\ UNCHANGED << options, attempt, lastError, error, delay, result, thrown,
                  cdArgs, cdRet,
                  otherVars >>

\* the mutant of Wake: the sleep of line 148 is not awaited, the next
\* attempt starts while the timer is pending
WakeNotAwaited ==
  /\ pc = "sleep"
  /\ attempt' = attempt + 1
  /\ pc' = "for"
  /\ delay' = 0
  /\ UNCHANGED << options, lastError, error, result, thrown, trace, cdArgs,
                  cdRet, callbackErrs,
                  otherVars >>

\* the mutant of ComputeAndSleep: the test of line 138 is attempt <= retries,
\* a delay follows the last attempt too
ComputeAndSleepAfterLast(k) ==
  /\ pc = "backoff"
  /\ attempt <= retries
  /\ delay' = computeDelay(baseDelayMs, attempt, maxDelayMs, exponential,
                           jitter, k)
  /\ pc' = "sleep"
  /\ trace' = Append(trace, Event("computeDelay", Undefined))
  /\ UNCHANGED << options, attempt, lastError, error, result, thrown, cdArgs,
                  cdRet, callbackErrs,
                  otherVars >>

\* retryUtils.ts:138-148: an attempt is left, the delay is computed and the
\* sleep starts
ComputeAndSleep(k) ==
  /\ pc = "backoff"
  /\ attempt < retries
  /\ delay' = computeDelay(baseDelayMs, attempt, maxDelayMs, exponential,
                           jitter, k)
  /\ pc' = "sleep"
  /\ trace' = Append(trace, Event("computeDelay", Undefined))
  /\ UNCHANGED << options, attempt, lastError, error, result, thrown, cdArgs,
                  cdRet, callbackErrs,
                  otherVars >>

\* retryUtils.ts:138, 100: the last attempt has failed, no delay; attempt++
SkipDelay ==
  /\ pc = "backoff"
  /\ ~(attempt < retries)
  /\ attempt' = attempt + 1
  /\ pc' = "for"
  /\ UNCHANGED << options, lastError, error, delay, result, thrown, trace,
                  cdArgs, cdRet, callbackErrs,
                  otherVars >>

\* the mutant of Wake: sleep never calls resolve, the timer fires and the
\* loop stays suspended at line 148
WakeNeverResolved ==
  /\ pc = "sleep"
  /\ UNCHANGED vars

\* retryUtils.ts:148, 224-226, 100: the timer fires; attempt++
Wake ==
  /\ pc = "sleep"
  /\ attempt' = attempt + 1
  /\ pc' = "for"
  /\ delay' = 0
  /\ trace' = Append(trace, Event("wake", Undefined))
  /\ UNCHANGED << options, lastError, error, result, thrown, cdArgs, cdRet,
                  callbackErrs,
                  otherVars >>

\* retryUtils.ts:100, 154-155: the loop test fails and lastError is thrown
ThrowLastError ==
  /\ pc = "for"
  /\ ~(attempt <= retries)
  /\ pc' = "thrown"
  /\ thrown' = lastError
  /\ trace' = Append(trace, Event("exhausted", Undefined))
  /\ UNCHANGED << options, attempt, lastError, error, delay, result, cdArgs,
                  cdRet, callbackErrs,
                  otherVars >>

Next ==
  \/ InvokeFn
  \/ \E v \in Values : FnResolves(v)
  \/ \E e \in ThrownIds : FnRejects(e)
  \/ ThrowFatal
  \/ LogFailure
  \/ CallOnRetry
  \/ OnRetryReturns
  \/ OnRetryThrows
  \/ \E k \in 0 .. (JitterDen - 1) : ComputeAndSleep(k)
  \/ SkipDelay
  \/ Wake
  \/ ThrowLastError

Spec == Init /\ [][Next]_vars

\* retryUtils.ts:100-156 with the operation, the onRetry callback and the
\* timer of sleep all settling: every awaited promise is settled after
\* finitely many turns of the event loop, and the continuation of a settled
\* promise is run, so a step that is possible is eventually taken
\* the calls termination is checked for: the delays are the default ones
\* (base and cap absent), every other option varies; the length of a delay
\* is of no consequence for the control flow
LiveOptionsSet ==
  { o \in OptionsSet : DOMAIN o \subseteq { "retries", "exponential", "jitter", "onRetry" } }
InitLive ==
  /\ Init
  /\ options \in LiveOptionsSet
SpecLive == InitLive /\ [][Next]_vars /\ WF_vars(Next)

\* ------------------------------------------- computeDelay on its own
\* the arguments computeDelay is applied to
DelayArgs ==
  [ base : ((0 - MaxBase) .. MaxBase) \cup { DefaultBaseDelayMs },
    attempt : 1 .. MaxAttempt,
    max : ((0 - 1) .. MaxCap) \cup { DefaultMaxDelayMs },
    exponential : BOOLEAN,
    jitter : BOOLEAN,
    k : 0 .. (JitterDen - 1) ]

InitDelay ==
  /\ options = << >>
  /\ pc = "computeDelay"
  /\ attempt = 0
  /\ lastError = Undefined
  /\ error = Undefined
  /\ delay = 0
  /\ result = Undefined
  /\ thrown = Undefined
  /\ trace = <<>>
  /\ callbackErrs = 0
  /\ cdArgs \in DelayArgs
  /\ cdRet = <<>>
  /\ OthersIdle

\* retryUtils.ts:198-216: computeDelay is applied to the arguments
ApplyComputeDelay ==
  /\ pc = "computeDelay"
  /\ cdRet = <<>>
  /\ cdRet' = << computeDelay(cdArgs.base, cdArgs.attempt, cdArgs.max,
                              cdArgs.exponential, cdArgs.jitter, cdArgs.k) >>
  /\ UNCHANGED << retryVars, cdArgs,
                  otherVars >>

NextDelay == ApplyComputeDelay

SpecDelay == InitDelay /\ [][NextDelay]_vars

\* ------------------------------------------------------------ ElementUtils
\* elementUtils.ts:104-337: the methods that wrap a locator action in retry
Actions ==
  { "click", "doubleClick", "rightClick", "fill", "type", "clear", "hover",
    "focus", "selectOption", "check", "uncheck", "press" }

\* the methods that hand options?.retryOptions to retry (lines 143, 168,
\* 186, 212, 245); the others call retry(fn) with no options
PassesRetryOptions(a) ==
  a \in { "click", "doubleClick", "rightClick", "fill", "type" }

\* the statements of the retried body, in the order of the source; "act" is
\* the locator action itself (click, dblclick, fill, pressSequentially, ...)
Steps(a) ==
  CASE a = "click" -> << "waitFor", "scroll", "act" >>
    [] a \in { "doubleClick", "fill", "type", "clear" } ->
         << "scroll", "waitFor", "act" >>
    [] a \in { "rightClick", "hover" } -> << "scroll", "act" >>
    [] OTHER -> << "act" >>

FirstStep(a) == Steps(a)[1]

\* the statement after st; the body is over after "act"
StepAfter(a, st) ==
  LET i == CHOOSE n \in DOMAIN Steps(a) : Steps(a)[n] = st
  IN  Steps(a)[i + 1]

\* what the locator's methods reject with
StepErrorIds == { "ErrTimeout", "ErrNotVisible", "ErrInvalidSelector" }
\* what the retried body rejects with
ActionErrorIds == StepErrorIds \cup { "ErrBoundingBox" }
ActionFatalIds == { id \in ActionErrorIds : isFatal(MessageOf(id)) }

\* bounding boxes, in pixels
Boxes == [ x : { 3 }, y : { 1 }, width : { 4, 5 }, height : { 2 } ]

\* elementUtils.ts:139-142, in half pixels:
\* (box.x + box.width / 2, box.y + box.height / 2)
ClickPointCorner(b) == << 2 * b.x, 2 * b.y >>
ClickPoint(b) == << 2 * b.x + b.width, 2 * b.y + b.height >>

\* the retry options a caller passes through retryOptions
ActionOptionsSet ==
  { o \in OptionsSet :
      /\ DOMAIN o \subseteq { "retries", "onRetry" }
      /\ "retries" \in DOMAIN o => o.retries <= MaxActionRetries }

InitAction ==
  /\ action \in Actions
  /\ options \in ActionOptionsSet
  /\ ~PassesRetryOptions(action) => options = << >>
  /\ pc = "for"
  /\ attempt = 1
  /\ lastError = Undefined
  /\ error = Undefined
  /\ delay = 0
  /\ result = Undefined
  /\ thrown = Undefined
  /\ trace = <<>>
  /\ callbackErrs = 0
  /\ cdArgs = NoArgs
  /\ cdRet = <<>>
  /\ clsErr = None
  /\ clsRet = <<>>
  /\ step = FirstStep(action)
  /\ box = NoBox
  /\ mouseAt = <<>>
  /\ WaitIdle
  /\ UtilIdle

\* the retried body returns: retry returns (retryUtils.ts:104-110)
BodyResolves(ev) ==
  /\ pc' = "returned"
  /\ result' = Undefined
  /\ step' = FirstStep(action)
  /\ trace' = trace \o << Event(ev, "ok"), Event("resolve", Undefined) >>
  /\ UNCHANGED << options, attempt, lastError, error, delay, thrown,
                  callbackErrs, cdArgs, cdRet, clsErr, clsRet, action,
                  waitVars, utilVars >>

\* the retried body rejects with e: retry catches it (retryUtils.ts:113-116)
BodyRejects(ev, outcome, e) ==
  /\ pc' = "catch"
  /\ error' = e
  /\ lastError' = e
  /\ step' = FirstStep(action)
  /\ trace' = trace \o << Event(ev, outcome), Event("reject", e) >>
  /\ UNCHANGED << options, attempt, delay, result, thrown, callbackErrs,
                  cdArgs, cdRet, clsErr, clsRet, action, waitVars, utilVars >>

\* the statement st is over and the body goes on with the next one
BodyGoesOn(ev, outcome, next) ==
  /\ step' = next
  /\ trace' = Append(trace, Event(ev, outcome))
  /\ UNCHANGED << options, pc, attempt, lastError, error, delay, result,
                  thrown, callbackErrs, cdArgs, cdRet, clsErr, clsRet,
                  action, waitVars, utilVars >>

\* a new attempt has a new const box (elementUtils.ts:134)
NewScope == box' = NoBox /\ mouseAt' = <<>>

\* elementUtils.ts:120, 165, 209, 242, 264: locator.waitFor resolves
WaitForOk ==
  /\ pc = "fn"
  /\ step = "waitFor"
  /\ BodyGoesOn("waitFor", "ok", StepAfter(action, "waitFor"))
  /\ NewScope

\* locator.waitFor rejects: the body rejects with its error
WaitForFails(e) ==
  /\ pc = "fn"
  /\ step = "waitFor"
  /\ BodyRejects("waitFor", "failed", e)
  /\ NewScope

\* elementUtils.ts:122, 163, 183, 207, 240, 262, 277:
\* scrollIntoViewIfNeeded resolves
ScrollOk ==
  /\ pc = "fn"
  /\ step = "scroll"
  /\ BodyGoesOn("scroll", "ok", StepAfter(action, "scroll"))
  /\ UNCHANGED << box, mouseAt >>

\* the mutant of ScrollFails: no try/catch around the scroll
ScrollFailsPropagates ==
  /\ pc = "fn"
  /\ step = "scroll"
  /\ BodyRejects("scroll", "failed", "ErrTimeout")
  /\ UNCHANGED << box, mouseAt >>

\* scrollIntoViewIfNeeded rejects and the empty catch swallows the error
ScrollFails ==
  /\ pc = "fn"
  /\ step = "scroll"
  /\ BodyGoesOn("scroll", "failed", StepAfter(action, "scroll"))
  /\ UNCHANGED << box, mouseAt >>

\* the mutant of ActOk: the return of line 127 is missing, the body goes on
\* to the fallback after a successful click
ActOkNoReturn ==
  /\ pc = "fn"
  /\ step = "act"
  /\ IF action = "click"
     THEN BodyGoesOn("act", "ok", "boundingBox")
     ELSE BodyResolves("act")
  /\ UNCHANGED << box, mouseAt >>

\* elementUtils.ts:126-127, 166, 185, 210, 243, 265, 278, 289, 304, 316,
\* 324, 335: the locator action resolves and the body returns
ActOk ==
  /\ pc = "fn"
  /\ step = "act"
  /\ BodyResolves("act")
  /\ UNCHANGED << box, mouseAt >>

\* the mutant of ActFails: click has no fallback, the error of the direct
\* click ends the attempt
ActFailsNoFallback(e) ==
  /\ pc = "fn"
  /\ step = "act"
  /\ BodyRejects("act", "failed", e)
  /\ UNCHANGED << box, mouseAt >>

\* the locator action rejects: click catches the error, logs two warnings
\* and goes on to the fallback (elementUtils.ts:128-134); in every other
\* method the body rejects with it
ActFails(e) ==
  /\ pc = "fn"
  /\ step = "act"
  /\ IF action = "click"
     THEN BodyGoesOn("act", "failed", "boundingBox")
     ELSE BodyRejects("act", "failed", e)
  /\ UNCHANGED << box, mouseAt >>

\* elementUtils.ts:134-137: boundingBox() resolves with a box
BoundingBoxReturns(b) ==
  /\ pc = "fn"
  /\ step = "boundingBox"
  /\ box' = b
  /\ BodyGoesOn("boundingBox", "box", "mouse")
  /\ UNCHANGED mouseAt

\* elementUtils.ts:134-135: boundingBox() resolves with null and the body
\* throws the Bounding box not found error
BoundingBoxNull ==
  /\ pc = "fn"
  /\ step = "boundingBox"
  /\ BodyRejects("boundingBox", "null", "ErrBoundingBox")
  /\ UNCHANGED << box, mouseAt >>

\* elementUtils.ts:134: boundingBox() rejects
BoundingBoxThrows(e) ==
  /\ pc = "fn"
  /\ step = "boundingBox"
  /\ BodyRejects("boundingBox", "failed", e)
  /\ UNCHANGED << box, mouseAt >>

\* the mutant of MouseClickOk: the click goes to the corner of the box
MouseClickOkAtCorner ==
  /\ pc = "fn"
  /\ step = "mouse"
  /\ mouseAt' = ClickPointCorner(box)
  /\ BodyResolves("mouse")
  /\ UNCHANGED box

\* elementUtils.ts:139-143: page.mouse.click at the centre resolves and the
\* body returns
MouseClickOk ==
  /\ pc = "fn"
  /\ step = "mouse"
  /\ mouseAt' = ClickPoint(box)
  /\ BodyResolves("mouse")
  /\ UNCHANGED box

\* elementUtils.ts:139-142: page.mouse.click rejects
MouseClickFails(e) ==
  /\ pc = "fn"
  /\ step = "mouse"
  /\ mouseAt' = ClickPoint(box)
  /\ BodyRejects("mouse", "failed", e)
  /\ UNCHANGED box

NextAction ==
  \/ InvokeFn
  \/ WaitForOk
  \/ \E e \in StepErrorIds : WaitForFails(e)
  \/ ScrollOk
  \/ ScrollFails
  \/ ActOk
  \/ \E e \in StepErrorIds : ActFails(e)
  \/ \E b \in Boxes : BoundingBoxReturns(b)
  \/ BoundingBoxNull
  \/ \E e \in StepErrorIds : BoundingBoxThrows(e)
  \/ MouseClickOk
  \/ \E e \in StepErrorIds : MouseClickFails(e)
  \/ ThrowFatal
  \/ LogFailure
  \/ CallOnRetry
  \/ OnRetryReturns
  \/ OnRetryThrows
  \/ \E k \in { 0, JitterDen - 1 } : ComputeAndSleep(k)
  \/ SkipDelay
  \/ Wake
  \/ ThrowLastError

SpecAction == InitAction /\ [][NextAction]_vars

\* --------------------------------------------------------------- WaitUtils
Digits == << "0", "1", "2", "3", "4", "5", "6", "7", "8", "9" >>
\* the template literal ${n} of a non-negative integer
RECURSIVE Decimal(_)
Decimal(n) ==
  IF n < 10 THEN << Digits[n + 1] >>
  ELSE Decimal(n \div 10) \o << Digits[(n % 10) + 1] >>

\* textContent() resolved with null, or rejected (.catch(() => null))
Null == "null"
\* what locator.textContent() yields
Texts == { Null, <<>>, <<"a">>, <<"a","b">>, <<"x","a","b","x">> }
\* the expected substrings
Expecteds == { <<>>, <<"a","b">> }
\* the labels resolveLabel returns (waitUtils.ts:49-85)
Names == { Label, <<"A","p","p","l","y"," ","B","u","t","t","o","n">> }
\* the errors locator.waitFor rejects with
LibraryWaitErrorIds == { "ErrTimeout", "ErrInvalidSelector" }

\* waitUtils.ts:251   text?.includes(expected)
TextMatches(text, expected) == text # Null /\ Includes(text, expected)

\* the mutant of InTime: the loop test is <=
InTimeInclusive(elapsed, timeout) == elapsed <= timeout
\* waitUtils.ts:248   Date.now() - start < timeout
InTime(elapsed, timeout) == elapsed < timeout

\* waitUtils.ts:119, 152
TimeoutLogLine(elapsed, name) ==
  <<"T","i","m","e","o","u","t"," ","a","f","t","e","r"," ">> \o Decimal(elapsed) \o <<"m","s"," ","→"," ">> \o name
\* waitUtils.ts:258-260
TextLogLine(expected, elapsed, name) ==
  <<"T","e","x","t"," ","\"">> \o expected \o <<"\""," ","N","O","T"," ","f","o","u","n","d"," ","a","f","t","e","r"," ">> \o Decimal(elapsed)
    \o <<"m","s"," ","→"," ">> \o name
\* waitUtils.ts:261
TextTimeoutMessage(expected, name) ==
  <<"T","i","m","e","o","u","t"," ","w","a","i","t","i","n","g"," ","f","o","r"," ","t","e","x","t"," ","\"">> \o expected \o <<"\""," ","i","n"," ","→"," ">>
    \o name

WaitArgsSet ==
  [ expected : Expecteds,
    timeout : (0 - 1) .. MaxTimeout,
    interval : 0 .. 1,
    name : Names ]

InitWait ==
  /\ options = << >>
  /\ attempt = 0
  /\ lastError = Undefined
  /\ error = Undefined
  /\ delay = 0
  /\ result = Undefined
  /\ thrown = Undefined
  /\ trace = <<>>
  /\ callbackErrs = 0
  /\ cdArgs = NoArgs
  /\ cdRet = <<>>
  /\ clsErr = None
  /\ clsRet = <<>>
  /\ action = None
  /\ step = None
  /\ box = NoBox
  /\ mouseAt = <<>>
  /\ waitOp \in
       { "waitForText", "waitForElementIsVisible",
         "waitForElementToDisappear" }
  /\ waitArgs \in WaitArgsSet
  /\ waitOp # "waitForText" =>
       waitArgs.expected = <<>> /\ waitArgs.interval = 0
  /\ now = 0
  /\ start = 0
  /\ polls = <<>>
  /\ waitLog = <<>>
  /\ waitErr = NoError
  /\ UtilIdle
  /\ pc = IF waitOp = "waitForText" THEN "while" ELSE "waitFor"

\* what a wait action leaves alone
WaitFrame ==
  UNCHANGED << options, attempt, lastError, delay, result, thrown, trace,
               callbackErrs, cdArgs, cdRet, clsErr, clsRet, action, step,
               box, mouseAt, waitOp, waitArgs, start, utilVars >>

\* waitUtils.ts:248-249: the loop test holds and textContent() is called
LoopTestPasses ==
  /\ pc = "while"
  /\ InTime(now - start, waitArgs.timeout)
  /\ Len(polls) < MaxPolls
  /\ pc' = "textContent"
  /\ polls' = Append(polls, [ elapsed |-> now - start, text |-> Null ])
  /\ UNCHANGED << now, waitLog, waitErr, error >>
  /\ WaitFrame

\* waitUtils.ts:249-253: textContent() yields a text that includes expected
\* after d ms, and waitForText returns
ReadMatches(text, d) ==
  /\ pc = "textContent"
  /\ TextMatches(text, waitArgs.expected)
  /\ now' = now + d
  /\ polls' = [ polls EXCEPT ![Len(polls)].text = text ]
  /\ pc' = "returned"
  /\ UNCHANGED << waitLog, waitErr, error >>
  /\ WaitFrame

\* waitUtils.ts:249-255: textContent() yields null or a text without
\* expected after d ms, and the sleep starts
ReadMisses(text, d) ==
  /\ pc = "textContent"
  /\ ~TextMatches(text, waitArgs.expected)
  /\ now' = now + d
  /\ polls' = [ polls EXCEPT ![Len(polls)].text = text ]
  /\ pc' = "sleep"
  /\ UNCHANGED << waitLog, waitErr, error >>
  /\ WaitFrame

\* waitUtils.ts:255, 267-269: the timer of sleep(interval) fires, d ms late
Slept(d) ==
  /\ pc = "sleep"
  /\ waitOp = "waitForText"
  /\ now' = now + waitArgs.interval + d
  /\ pc' = "while"
  /\ UNCHANGED << polls, waitLog, waitErr, error >>
  /\ WaitFrame

\* waitUtils.ts:248, 258-261: the loop test fails, the error line is logged
\* and the timeout Error is thrown
TextTimesOut ==
  /\ pc = "while"
  /\ ~InTime(now - start, waitArgs.timeout)
  /\ waitLog' = TextLogLine(waitArgs.expected, now - start, waitArgs.name)
  /\ waitErr' =
       [ isError |-> TRUE, name |-> <<"E","r","r","o","r">>,
         text |-> TextTimeoutMessage(waitArgs.expected, waitArgs.name) ]
  /\ pc' = "thrown"
  /\ UNCHANGED << now, polls, error >>
  /\ WaitFrame

\* waitUtils.ts:116-117, 149-150: locator.waitFor resolves after d ms
LibraryWaitResolves(d) ==
  /\ pc = "waitFor"
  /\ waitOp \in { "waitForElementIsVisible", "waitForElementToDisappear" }
  /\ now' = now + d
  /\ pc' = "returned"
  /\ UNCHANGED << polls, waitLog, waitErr, error >>
  /\ WaitFrame

\* the mutant of LibraryWaitRejects: the catch logs and does not rethrow
LibraryWaitRejectsSwallowed(e, d) ==
  /\ pc = "waitFor"
  /\ waitOp \in { "waitForElementIsVisible", "waitForElementToDisappear" }
  /\ now' = now + d
  /\ waitLog' = TimeoutLogLine(now' - start, waitArgs.name)
  /\ pc' = "returned"
  /\ UNCHANGED << polls, waitErr, error >>
  /\ WaitFrame

\* waitUtils.ts:116-121, 149-154: locator.waitFor rejects with e after
\* d ms; the catch logs the error line and rethrows e
LibraryWaitRejects(e, d) ==
  /\ pc = "waitFor"
  /\ waitOp \in { "waitForElementIsVisible", "waitForElementToDisappear" }
  /\ now' = now + d
  /\ waitLog' = TimeoutLogLine(now' - start, waitArgs.name)
  /\ error' = e
  /\ waitErr' = ThrownValue(error')
  /\ pc' = "thrown"
  /\ UNCHANGED polls
  /\ WaitFrame

NextWait ==
  \/ LoopTestPasses
  \/ \E text \in Texts, d \in 0 .. MaxTick : ReadMatches(text, d)
  \/ \E text \in Texts, d \in 0 .. MaxTick : ReadMisses(text, d)
  \/ \E d \in 0 .. MaxTick : Slept(d)
  \/ TextTimesOut
  \/ \E d \in 0 .. (MaxTimeout + MaxTick) : LibraryWaitResolves(d)
  \/ \E e \in LibraryWaitErrorIds, d \in 0 .. (MaxTimeout + MaxTick) :
       LibraryWaitRejects(e, d)

SpecWait == InitWait /\ [][NextWait]_vars

\* ---------------------------------------------------------- Runtime store
\* the values callers store: undefined, two strings and an object
StoredValues == { Undefined, "s1", "s2", "o1" }
\* the strings BasePage.store* reads from the page (part_003:1413-1475)
PageTexts == { "s1", "s2" }
\* typeof v === "object"
IsObject(v) == v \in { "o1", ObjectPrototype }
\* the own properties of the object o1 = { k1: "s2" }
ObjectOwn(o, k) == IF o = "o1" /\ k = "k1" THEN "s2" ELSE Absent

\* store[key] as JavaScript evaluates it: __proto__ is the accessor of
\* Object.prototype and yields the prototype; otherwise the own property,
\* else the property found along the prototype chain, else undefined
Lookup(st, pr, k) ==
  IF k = "__proto__" THEN pr
  ELSE IF st[k] # Absent THEN st[k]
  ELSE IF ObjectOwn(pr, k) # Absent THEN ObjectOwn(pr, k)
  ELSE IF k = "toString" THEN ToStringFunction
  ELSE Undefined

\* store[key] = value, the own properties afterwards: the __proto__ setter
\* creates no own property
OwnAfterAssign(st, k, v) ==
  IF k = "__proto__" THEN st ELSE [ st EXCEPT ![k] = v ]
\* store[key] = value, the prototype afterwards: the __proto__ setter
\* replaces the prototype by an object and ignores any other value
ProtoAfterAssign(pr, k, v) ==
  IF k = "__proto__" /\ IsObject(v) THEN v ELSE pr

Bool(b) == IF b THEN "true" ELSE "false"

InitRuntime ==
  /\ options = << >>
  /\ pc = "runtime"
  /\ attempt = 0
  /\ lastError = Undefined
  /\ error = Undefined
  /\ delay = 0
  /\ result = Undefined
  /\ thrown = Undefined
  /\ trace = <<>>
  /\ callbackErrs = 0
  /\ cdArgs = NoArgs
  /\ cdRet = <<>>
  /\ OthersIdle

\* what a Runtime call leaves alone
RuntimeFrame ==
  UNCHANGED << options, pc, attempt, lastError, error, delay, result, thrown,
               trace, callbackErrs, cdArgs, cdRet, clsErr, clsRet, action,
               step, box, mouseAt, waitVars, handleVars >>

\* the flow f is not inside a BasePage.store* call
Free(f) == pc = "runtime" /\ pending[f] = NoPending

\* validationUtils.ts:186-189 as a state change
DoSet(k, v) ==
  /\ store' = OwnAfterAssign(store, k, v)
  /\ proto' = ProtoAfterAssign(proto, k, v)
  /\ ideal' = [ ideal EXCEPT ![k] = v ]
  /\ touched' = touched \cup { k }
  /\ everSet' = everSet \cup { k }
  /\ lastOp' = [ op |-> "set", key |-> k, val |-> v, ret |-> Undefined ]

\* validationUtils.ts:186-189: Runtime.set(key, value)
RuntimeSet(f, k, v) ==
  /\ Free(f)
  /\ DoSet(k, v)
  /\ UNCHANGED pending
  /\ RuntimeFrame

\* validationUtils.ts:191-193: Runtime.get(key)
RuntimeGet(f, k) ==
  /\ Free(f)
  /\ lastOp' = [ op |-> "get", key |-> k, val |-> None,
                  ret |-> Lookup(store, proto, k) ]
  /\ UNCHANGED << store, proto, ideal, touched, everSet, pending >>
  /\ RuntimeFrame

\* validationUtils.ts:195-197: Runtime.has(key)
RuntimeHas(f, k) ==
  /\ Free(f)
  /\ lastOp' = [ op |-> "has", key |-> k, val |-> None,
                  ret |-> Bool(Lookup(store, proto, k) # Undefined) ]
  /\ UNCHANGED << store, proto, ideal, touched, everSet, pending >>
  /\ RuntimeFrame

\* validationUtils.ts:199-201: Runtime.remove(key); delete removes the own
\* property, if any
RuntimeRemove(f, k) ==
  /\ Free(f)
  /\ store' = [ store EXCEPT ![k] = Absent ]
  /\ ideal' = [ ideal EXCEPT ![k] = Absent ]
  /\ lastOp' = [ op |-> "remove", key |-> k, val |-> None,
                  ret |-> Undefined ]
  /\ UNCHANGED << proto, touched, everSet, pending >>
  /\ RuntimeFrame

\* validationUtils.ts:203-205: Runtime.clear(); a new object literal
RuntimeClear(f) ==
  /\ Free(f)
  /\ store' = [ k \in Keys |-> Absent ]
  /\ proto' = ObjectPrototype
  /\ ideal' = [ k \in Keys |-> Absent ]
  /\ touched' = {}
  /\ lastOp' = [ op |-> "clear", key |-> None, val |-> None,
                  ret |-> Undefined ]
  /\ UNCHANGED << everSet, pending >>
  /\ RuntimeFrame

\* validationUtils.ts:207-211: Runtime.dump()
RuntimeDump(f) ==
  /\ Free(f)
  /\ lastOp' = [ op |-> "dump", key |-> None, val |-> None,
                  ret |-> Undefined ]
  /\ UNCHANGED << store, proto, ideal, touched, everSet, pending >>
  /\ RuntimeFrame

\* part_003:1413-1415, 1440-1446, 1471-1473: BasePage.store* has awaited
\* the text of the locator
StoreRead(f, k, v) ==
  /\ Free(f)
  /\ pending' = [ pending EXCEPT ![f] = << k, v >> ]
  /\ UNCHANGED << store, proto, ideal, touched, everSet, lastOp >>
  /\ RuntimeFrame

\* part_003:1416, 1447, 1474: Runtime.set(key, value)
StoreSet(f) ==
  /\ pc = "runtime"
  /\ pending[f] # NoPending
  /\ DoSet(pending[f][1], pending[f][2])
  /\ pending' = [ pending EXCEPT ![f] = NoPending ]
  /\ RuntimeFrame

NextRuntime ==
  \E f \in Flows :
    \/ \E k \in Keys, v \in StoredValues : RuntimeSet(f, k, v)
    \/ \E k \in Keys : RuntimeGet(f, k)
    \/ \E k \in Keys : RuntimeHas(f, k)
    \/ \E k \in Keys : RuntimeRemove(f, k)
    \/ RuntimeClear(f)
    \/ RuntimeDump(f)
    \/ \E k \in Keys, v \in PageTexts : StoreRead(f, k, v)
    \/ StoreSet(f)

SpecRuntime == InitRuntime /\ [][NextRuntime]_vars

\* ------------------------------- ErrorHandler.handle and handleAsync
\* errorHandler.ts:61-63 and 27-29, the contexts and screenshot names of the
\* examples, and the empty string
ContextExample == <<"c","l","i","c","k","-","l","o","g","i","n">>
ScreenshotNameExample == <<"a","d","d","M","a","p","p","i","n","g","_","f","a","i","l","e","d">>
HandleOptionFields(op) ==
  IF op = "handle" THEN { "context" }
  ELSE { "context", "page", "screenshotName" }
HandleFullOptions ==
  [ context : { <<>>, ContextExample },
    page : { "page" },
    screenshotName : { <<>>, ScreenshotNameExample } ]
\* errorHandler.ts:66, 107-111: the options objects, every field optional
HandleOptionsSet(op) ==
  { [ f \in D |-> full[f] ] :
      full \in HandleFullOptions, D \in SUBSET HandleOptionFields(op) }

\* errorHandler.ts:68, 113   options?.context ?? ""
HandleContext ==
  IF "context" \in DOMAIN hOpts THEN hOpts.context ELSE <<>>
\* errorHandler.ts:114-115, 119   page && screenshotName
\* (an absent field is undefined, and "" is falsy)
WantsScreenshot ==
  /\ "page" \in DOMAIN hOpts
  /\ "screenshotName" \in DOMAIN hOpts
  /\ hOpts.screenshotName # <<>>

\* errorHandler.ts:143   error instanceof Error ? error.message : String(error)
LogErrorMessage(v) == IF v.isError THEN v.text ELSE StringOf(v)
\* errorHandler.ts:144   error instanceof Error ? error.stack : ""
\* (the stack of an Error starts with its string form, frames follow)
LogErrorStack(v) ==
  IF v.isError
  THEN StringOf(v) \o <<"\n"," "," "," "," ","a","t"," ","f","n">>
  ELSE <<>>
\* errorHandler.ts:142-154: the lines logError hands to logger.error
logError(v, context) ==
  << IF context # <<>>
     THEN <<" ","E","r","r","o","r"," ","i","n"," ">> \o context
            \o <<":"," ">> \o LogErrorMessage(v)
     ELSE <<"E","r","r","o","r",":"," ">> \o LogErrorMessage(v) >>
  \o (IF LogErrorStack(v) # <<>> THEN << LogErrorStack(v) >> ELSE << >>)

\* errorHandler.ts:121   `test-results/errors/${screenshotName}.png`
ScreenshotFile(name) ==
  <<"t","e","s","t","-","r","e","s","u","l","t","s","/","e","r","r","o","r","s","/">>
    \o name \o <<".","p","n","g">>
\* errorHandler.ts:124
CapturedLine(file) ==
  <<"S","c","r","e","e","n","s","h","o","t"," ","c","a","p","t","u","r","e","d",":"," ">>
    \o file
\* errorHandler.ts:127   `Failed to capture screenshot: ${ssError}`
FailedCaptureLine(v) ==
  <<"F","a","i","l","e","d"," ","t","o"," ","c","a","p","t","u","r","e"," ","s","c","r","e","e","n","s","h","o","t",":"," ">>
    \o StringOf(v)

\* errorHandler.ts:64-67, 105-112: handle(fn, options) has been called and
\* has not run yet, or handleAsync(error, options) has
InitHandle ==
  /\ hOp \in { "handle", "handleAsync" }
  /\ hOpts \in HandleOptionsSet(hOp)
  /\ error \in IF hOp = "handle" THEN { Undefined } ELSE ThrownIds
  /\ fnOutcome = NoOutcome
  /\ hLog = <<>>
  /\ pc = "call"
  /\ options = << >>
  /\ attempt = 0
  /\ lastError = Undefined
  /\ delay = 0
  /\ result = Undefined
  /\ thrown = Undefined
  /\ trace = <<>>
  /\ callbackErrs = 0
  /\ cdArgs = NoArgs
  /\ cdRet = <<>>
  /\ clsErr = None
  /\ clsRet = <<>>
  /\ action = None
  /\ step = None
  /\ box = NoBox
  /\ mouseAt = <<>>
  /\ WaitIdle
  /\ RuntimeIdle

\* what a handler call leaves alone
HandleFrame ==
  UNCHANGED << options, attempt, lastError, delay, trace, callbackErrs,
               cdArgs, cdRet, clsErr, clsRet, action, step, box, mouseAt,
               waitVars, runtimeVars, hOp, hOpts >>

\* errorHandler.ts:70-71: handle calls fn() and awaits it
HandleCallsFn ==
  /\ hOp = "handle"
  /\ pc = "call"
  /\ pc' = "fn"
  /\ UNCHANGED << error, result, thrown, fnOutcome, hLog >>
  /\ HandleFrame

\* errorHandler.ts:71: fn resolves with v and handle returns it
HandleFnResolves(v) ==
  /\ hOp = "handle"
  /\ pc = "fn"
  /\ fnOutcome' = << "resolved", v >>
  /\ result' = v
  /\ pc' = "returned"
  /\ UNCHANGED << error, thrown, hLog >>
  /\ HandleFrame

\* errorHandler.ts:72-75: fn rejects with e; the catch logs it and rethrows
\* the same value
HandleFnRejects(e) ==
  /\ hOp = "handle"
  /\ pc = "fn"
  /\ fnOutcome' = << "rejected", e >>
  /\ error' = e
  /\ hLog' = hLog \o logError(ThrownValue(e), HandleContext)
  /\ thrown' = e
  /\ pc' = "thrown"
  /\ UNCHANGED result
  /\ HandleFrame

\* errorHandler.ts:113-119, 131: handleAsync logs the error; no page or no
\* screenshot name, so it throws the error at once
HandleAsyncNoScreenshot ==
  /\ hOp = "handleAsync"
  /\ pc = "call"
  /\ ~WantsScreenshot
  /\ hLog' = hLog \o logError(ThrownValue(error), HandleContext)
  /\ thrown' = error
  /\ pc' = "thrown"
  /\ UNCHANGED << error, result, fnOutcome >>
  /\ HandleFrame

\* errorHandler.ts:113-123: handleAsync logs the error and awaits
\* page.screenshot
HandleAsyncTakesScreenshot ==
  /\ hOp = "handleAsync"
  /\ pc = "call"
  /\ WantsScreenshot
  /\ hLog' = hLog \o logError(ThrownValue(error), HandleContext)
  /\ pc' = "screenshot"
  /\ UNCHANGED << error, result, thrown, fnOutcome >>
  /\ HandleFrame

\* errorHandler.ts:123-124, 131: the screenshot is taken, its file is logged
\* and the error is thrown
ScreenshotResolves ==
  /\ hOp = "handleAsync"
  /\ pc = "screenshot"
  /\ hLog' = Append(hLog, CapturedLine(ScreenshotFile(hOpts.screenshotName)))
  /\ thrown' = error
  /\ pc' = "thrown"
  /\ UNCHANGED << error, result, fnOutcome >>
  /\ HandleFrame

\* the mutant of ScreenshotRejects: no try/catch around the screenshot, its
\* error replaces the one handleAsync was given
ScreenshotRejectsPropagates(ss) ==
  /\ hOp = "handleAsync"
  /\ pc = "screenshot"
  /\ thrown' = ss
  /\ pc' = "thrown"
  /\ UNCHANGED << error, result, fnOutcome, hLog >>
  /\ HandleFrame

\* errorHandler.ts:123, 126-131: page.screenshot rejects with ss; the catch
\* logs it and the error handleAsync was given is thrown
ScreenshotRejects(ss) ==
  /\ hOp = "handleAsync"
  /\ pc = "screenshot"
  /\ hLog' = Append(hLog, FailedCaptureLine(ThrownValue(ss)))
  /\ thrown' = error
  /\ pc' = "thrown"
  /\ UNCHANGED << error, result, fnOutcome >>
  /\ HandleFrame

NextHandle ==
  \/ HandleCallsFn
  \/ \E v \in Values \cup { Undefined } : HandleFnResolves(v)
  \/ \E e \in ThrownIds : HandleFnRejects(e)
  \/ HandleAsyncNoScreenshot
  \/ HandleAsyncTakesScreenshot
  \/ ScreenshotResolves
  \/ \E ss \in ThrownIds : ScreenshotRejects(ss)

SpecHandle == InitHandle /\ [][NextHandle]_vars

\* ------------------------------------------- the classifiers on their own
\* messages the automation library and the framework produce
ClassifyCores ==
  { ThrownValue(id).text : id \in ThrownIds } \cup
  { <<"T","I","M","E","O","U","T"," ","w","h","i","l","e"," ","w","a","i","t","i","n","g"," ","f","o","r"," ","s","e","l","e","c","t","o","r">>,
    <<"c","o","n","n","e","c","t"," ","E","C","O","N","N","R","E","F","U","S","E","D"," ","1","2","7",".","0",".","0",".","1",":","3","0","0","0">>,
    <<"r","e","a","d"," ","E","C","O","N","N","R","E","S","E","T">>,
    <<"e","l","e","m","e","n","t"," ","i","s"," ","n","o","t"," ","e","n","a","b","l","e","d">>,
    <<"T","a","r","g","e","t"," ","p","a","g","e",","," ","c","o","n","t","e","x","t"," ","o","r"," ","b","r","o","w","s","e","r"," ","h","a","s"," ","b","e","e","n"," ","c","l","o","s","e","d">>,
    <<"N","a","v","i","g","a","t","i","o","n"," ","f","a","i","l","e","d"," ","b","e","c","a","u","s","e"," ","p","a","g","e"," ","c","r","a","s","h","e","d">> }

\* what callers put around a message
ClassifyPrefixes ==
  { <<>>, <<"l","o","c","a","t","o","r",".","c","l","i","c","k",":"," ">>, <<"E","r","r","o","r",":"," ">> }
ClassifySuffixes ==
  { <<>>, <<" ","(","a","t","t","e","m","p","t"," ","1",")">> }

\* the error-like values handed to the classifiers: the values fn throws
\* and Error objects carrying the messages above
ClassifyInputs ==
  { ThrownValue(id) : id \in ThrownIds } \cup
  { [ isError |-> TRUE, name |-> <<"E","r","r","o","r">>,
      text |-> pre \o core \o suf ] :
      pre \in ClassifyPrefixes, core \in ClassifyCores,
      suf \in ClassifySuffixes }

InitClassify ==
  /\ options = << >>
  /\ pc = "classify"
  /\ attempt = 0
  /\ lastError = Undefined
  /\ error = Undefined
  /\ delay = 0
  /\ result = Undefined
  /\ thrown = Undefined
  /\ trace = <<>>
  /\ callbackErrs = 0
  /\ cdArgs = NoArgs
  /\ cdRet = <<>>
  /\ clsErr \in ClassifyInputs
  /\ clsRet = <<>>
  /\ action = None
  /\ step = None
  /\ box = NoBox
  /\ mouseAt = <<>>
  /\ WaitIdle
  /\ UtilIdle

\* retryUtils.ts:115-119 and errorHandler.ts:162-209: each classifier is
\* applied to the error
Classify ==
  /\ pc = "classify"
  /\ pc' = "classified"
  /\ clsRet' =
       << [ fatal |-> isFatal(RetryMessage(clsErr)),
            network |-> isNetworkError(HandlerMessage(clsErr)),
            timeout |-> isTimeoutError(HandlerMessage(clsErr)),
            element |-> isElementError(HandlerMessage(clsErr)),
            fatalPlaywright |->
              isFatalPlaywrightError(HandlerMessage(clsErr)) ] >>
  /\ UNCHANGED << options, attempt, lastError, error, delay, result, thrown,
                  trace, callbackErrs, cdArgs, cdRet, clsErr, action, step,
                  box, mouseAt, waitVars, utilVars >>

NextClassify == Classify

SpecClassify == InitClassify /\ [][NextClassify]_vars

\* ================================================================ claims
\* the positions of the trace that hold an event of kind ev
At(ev) == { i \in DOMAIN trace : trace[i].ev = ev }
Count(ev) == Cardinality(At(ev))
\* the events of attempt n, in order
RECURSIVE OfAttempt(_, _)
OfAttempt(t, n) ==
  IF t = <<>> THEN <<>>
  ELSE IF Head(t).attempt = n THEN << Head(t).ev >> \o OfAttempt(Tail(t), n)
  ELSE OfAttempt(Tail(t), n)
\* every rejection so far was classified retryable by the code
AllFailedRetryable ==
  /\ At("resolve") = {}
  /\ \A i \in At("reject") : trace[i].val \notin FatalIds
\* the position of the last rejection
LastReject == CHOOSE i \in At("reject") : \A j \in At("reject") : j <= i

\* C1: with retries = N >= 1 and fn failing every time with a retryable
\* error, retry ends having called fn exactly N times and having computed
\* and slept a delay exactly N-1 times: one between each pair of consecutive
\* calls of fn and none after the last call.
C1_ExactAttemptsAndDelays ==
  (pc = "thrown" /\ retries >= 1 /\ AllFailedRetryable) =>
    /\ Count("fn") = retries
    /\ Count("computeDelay") = retries - 1
    /\ Count("wake") = retries - 1
    /\ \A i \in At("fn") :
         LET laterFn == { j \in At("fn") : j > i }
             delays == { d \in At("computeDelay") : d > i }
             wakes == { w \in At("wake") : w > i }
         IN  /\ Cardinality(delays) = Cardinality(laterFn)
             /\ Cardinality(wakes) = Cardinality(laterFn)

C1_Witness ==
  /\ pc = "thrown"
  /\ retries = MaxRetries
  /\ AllFailedRetryable
  /\ Count("fn") = MaxRetries
  /\ Count("wake") = MaxRetries - 1

\* C1, the case N = 1: one call of fn and no delay
C1_WitnessOne ==
  pc = "thrown" /\ retries = 1 /\ AllFailedRetryable /\ Count("fn") = 1
    /\ Count("computeDelay") = 0

\* C2: once fn has rejected with an error whose message is fatal, the only
\* thing retry still does is rethrow that very error: no further call of
\* fn, no callback, no delay, no sleep, whatever the retry count; a fatal
\* first attempt leaves fn called exactly once.
C2_FatalPropagatesImmediately ==
  \A i \in At("reject") :
    trace[i].val \in FatalIds =>
      /\ Len(trace) <= i + 1
      /\ Len(trace) = i => pc = "catch"
      /\ Len(trace) = i + 1 =>
           /\ trace[i + 1].ev = "classified"
           /\ trace[i + 1].val = "fatal"
           /\ pc = "thrown"
           /\ thrown = trace[i].val
           /\ Count("fn") = trace[i].attempt
           /\ Count("computeDelay") = trace[i].attempt - 1

C2_Witness ==
  /\ pc = "thrown"
  /\ retries = MaxRetries
  /\ Count("fn") = 1
  /\ Count("computeDelay") = 0
  /\ thrown = "ErrInvalidSelector"

\* C3: retry returns the value of the first attempt that succeeds and fn is
\* not called again: when retry has returned, the successful call is the
\* last event, every earlier call was rejected, and the number of calls is
\* the number of that attempt.
C3_ReturnsFirstSuccess ==
  /\ \A i \in At("resolve") :
       /\ i = Len(trace)
       /\ pc = "returned"
       /\ result = trace[i].val
       /\ trace[i - 1].ev = "fn"
       /\ Count("fn") = trace[i].attempt
       /\ Count("reject") = trace[i].attempt - 1
  /\ pc = "returned" => At("resolve") # {}

C3_Witness ==
  /\ pc = "returned"
  /\ result = "v2"
  /\ Count("fn") = 2
  /\ Count("reject") = 1
  /\ retries = MaxRetries

\* C4: when every attempt has failed with a retryable error, retry throws
\* the error of the last attempt itself: the value lastError holds, which is
\* the value of the last rejection and no other value.
C4_ThrowsLastAttemptsError ==
  (pc = "thrown" /\ retries >= 1 /\ AllFailedRetryable) =>
    /\ At("reject") # {}
    /\ trace[LastReject].attempt = retries
    /\ thrown = trace[LastReject].val
    /\ thrown \in ThrownIds

\* the last attempt's error differs from the first attempt's
C4_Witness ==
  /\ pc = "thrown"
  /\ retries = MaxRetries
  /\ AllFailedRetryable
  /\ Count("reject") = MaxRetries
  /\ thrown = "ErrNotVisible"
  /\ trace[2].ev = "reject"
  /\ trace[2].val = "ErrTimeout"

\* C5: the callback is called exactly once after each rejection that is
\* classified retryable (the last attempt's too), with that attempt's number
\* and error, and at no other point (not after a fatal rejection, not after
\* a success); when the callback throws, retry goes on exactly as when it
\* returns (the delay and the next attempt follow, or the loop ends) and
\* what retry finally throws is an error of fn, never the callback's.
C5_OnRetryOncePerRetryableFailure ==
  /\ \A i \in At("onRetry") :
       /\ onRetry
       /\ i >= 3
       /\ trace[i - 1].ev = "classified"
       /\ trace[i - 1].val = "retryable"
       /\ trace[i - 2].ev = "reject"
       /\ trace[i - 2].attempt = trace[i].attempt
       /\ trace[i - 2].val = trace[i].val
       /\ trace[i].val \notin FatalIds
  /\ \A i \in At("classified") :
       (onRetry /\ trace[i].val = "retryable") =>
         IF Len(trace) = i THEN pc = "onRetry"
         ELSE trace[i + 1].ev = "onRetry"
  /\ \A i \in At("onRetry"), j \in At("onRetry") :
       trace[i].attempt = trace[j].attempt => i = j
  /\ \A i \in At("onRetryDone") :
       /\ trace[i - 1].ev = "onRetry"
       /\ IF Len(trace) = i
          THEN pc = "backoff" \/ (pc = "for" /\ attempt > retries)
          ELSE trace[i + 1].ev =
                 IF trace[i].attempt < retries THEN "computeDelay"
                 ELSE "exhausted"
  /\ callbackErrs <= Count("onRetryDone")
  /\ (pc = "thrown" /\ callbackErrs > 0) =>
       /\ thrown \in ThrownIds
       /\ thrown = trace[LastReject].val
  /\ ~onRetry => At("onRetry") = {}

\* the callback threw after every attempt, the last included, and retry
\* still made every attempt and threw the last attempt's error
C5_Witness ==
  /\ pc = "thrown"
  /\ retries = MaxRetries
  /\ Count("fn") = MaxRetries
  /\ Count("onRetry") = MaxRetries
  /\ Count("wake") = MaxRetries - 1
  /\ callbackErrs = MaxRetries
  /\ thrown = trace[LastReject].val

\* C6: the attempts of one call are strictly sequential: when fn is called
\* for attempt n+1, attempt n consists of exactly its call, its rejection,
\* the classification as retryable, the callback and its completion (when a
\* callback is configured), the computation of the delay and the end of the
\* sleep, in this order; and fn is never called while a call of fn, the
\* callback or the sleep is pending.
C6_AttemptsInCausalOrder ==
  /\ \A i \in At("fn") :
       /\ trace[i].attempt >= 2 =>
            OfAttempt(trace, trace[i].attempt - 1) =
              IF onRetry
              THEN << "fn", "reject", "classified", "onRetry", "onRetryDone",
                      "computeDelay", "wake" >>
              ELSE << "fn", "reject", "classified", "computeDelay", "wake" >>
       /\ i > 1 => trace[i - 1].ev = "wake"
       /\ \A j \in At("fn") : j < i => trace[j].attempt < trace[i].attempt
  /\ \A i \in DOMAIN trace : i > 1 => trace[i - 1].attempt <= trace[i].attempt
  /\ \A i \in At("fn") :
       i < Len(trace) => trace[i + 1].ev \in { "resolve", "reject" }
  /\ \A i \in At("onRetry") :
       i < Len(trace) => trace[i + 1].ev = "onRetryDone"
  /\ \A i \in At("computeDelay") :
       i < Len(trace) => trace[i + 1].ev = "wake"

C6_Witness ==
  /\ onRetry
  /\ retries = MaxRetries
  /\ pc = "fn"
  /\ attempt = MaxRetries
  /\ Count("wake") = MaxRetries - 1

\* the jitter drawn in a computeDelay call, in units of 1/Unit ms
cdJitter == jitterAmount(cdArgs.base, cdArgs.k)
\* computeDelay's result for the same arguments with jitter off
cdUnjittered ==
  computeDelay(cdArgs.base, cdArgs.attempt, cdArgs.max, cdArgs.exponential,
               FALSE, cdArgs.k)

C8_JitterWithinBounds ==
  (cdRet # <<>> /\ cdArgs.jitter) =>
    /\ cdRet[1] >= cdUnjittered
    /\ cdRet[1] <= cdArgs.max * Unit

\* C9: with baseDelayMs <= 0 the delay retry computes and sleeps is never
\* negative.
C9_DelayNeverNegative ==
  (pc = "sleep" /\ baseDelayMs <= 0) => delay >= 0

\* C10: retry called without options runs with retries = 2,
\* baseDelayMs = 3000, maxDelayMs = 9000, exponential and jitter on: fn is
\* called at most twice and the one delay, slept after attempt 1, is in
\* [3000, 4500) ms.
C10_DefaultOptions ==
  DOMAIN options = {} =>
    /\ retries = 2
    /\ baseDelayMs = 3000
    /\ maxDelayMs = 9000
    /\ exponential
    /\ jitter
    /\ Count("fn") <= 2
    /\ Count("computeDelay") <= 1
    /\ pc = "sleep" =>
         /\ attempt = 1
         /\ 3000 * Unit <= delay
         /\ delay < 4500 * Unit
    /\ (pc = "thrown" /\ AllFailedRetryable) =>
         Count("fn") = 2 /\ Count("wake") = 1

\* the sleep between the two attempts of a call without options, with a
\* positive jitter
C10_Witness ==
  /\ DOMAIN options = {}
  /\ pc = "sleep"
  /\ Count("fn") = 1
  /\ delay > 3000 * Unit

\* ------------------------------------------------------------------- C11
\* C11: a rejection whose message isTimeoutError or isElementError accepts
\* is never classified fatal by retry: while attempts remain it is classified
\* retryable, retry does not end by throwing it, and fn is invoked again.
C11_RetryableCategoriesNeverFatal ==
  \A i \in At("reject") :
    (trace[i].val \in TimeoutIds \cup ElementIds
       /\ trace[i].attempt < retries) =>
      /\ Len(trace) > i =>
           /\ trace[i + 1].ev = "classified"
           /\ trace[i + 1].val = "retryable"
      /\ pc = "thrown" => \E j \in At("fn") : j > i

\* ------------------------------------------------------------------- C12
\* an Error object whose message is exactly m has been classified
Classified(m) ==
  /\ clsRet # <<>>
  /\ clsErr.isError
  /\ clsErr.text = m

\* C12: an error with message 'Invalid selector: //bad[[' is classified
\* fatal; one with message 'Timeout 30000ms exceeded' is classified timeout
\* and not fatal; one with message 'net::ERR_CONNECTION_RESET' is classified
\* network.
C12_ClassifierScenarios ==
  /\ Classified(ThrownValue("ErrInvalidSelector").text) => clsRet[1].fatal
  /\ Classified(ThrownValue("ErrTimeout").text) =>
       clsRet[1].timeout /\ ~clsRet[1].fatal
  /\ Classified(ThrownValue("ErrNetReset").text) => clsRet[1].network

C12_Witness ==
  /\ Classified(<<"T","i","m","e","o","u","t"," ","3","0","0","0","0","m","s"," ","e","x","c","e","e","d","e","d">>)
  /\ clsRet[1].timeout
  /\ ~clsRet[1].fatal

\* ------------------------------------------------------------ C13 .. C17
\* the event at position i is ev with outcome val
Is(i, ev, val) == trace[i].ev = ev /\ trace[i].val = val
\* an event ev with outcome val lies before position i, in the same attempt
EarlierInAttempt(i, ev, val) ==
  \E j \in 1 .. (i - 1) :
    trace[j].attempt = trace[i].attempt /\ Is(j, ev, val)
\* some event of the attempt of position i is one of evs
InAttempt(i, evs) ==
  \E j \in DOMAIN trace :
    trace[j].attempt = trace[i].attempt /\ trace[j].ev \in evs
\* the fallback click of position i failed with a retryable error while
\* attempts remained
FallbackFailedRetryable(i) ==
  /\ Is(i, "mouse", "failed")
  /\ trace[i + 1].val \notin ActionFatalIds
  /\ trace[i].attempt < retries
\* after position i the whole click sequence is run again: a delay, a wake,
\* a new call of the body, which starts with the visibility wait
SequenceRunAgain(i) ==
  /\ pc \in { "returned", "thrown" } => \E j \in At("fn") : j > i
  /\ \A j \in At("fn") :
       j > i /\ trace[j].attempt = trace[i].attempt + 1 =>
         /\ \E d \in At("computeDelay"), w \in At("wake") :
              i < d /\ d < w /\ w < j
         /\ Len(trace) > j => trace[j + 1].ev = "waitFor"

\* C13, as claimed: in click, the bounding-box fallback is used only after a
\* failed direct click has been retried with backoff, and a fallback click
\* that fails with a retryable error makes the whole sequence run again.
C13_DirectClickRetriedBeforeFallback ==
  action = "click" =>
    /\ \A i \in At("boundingBox") :
         \E a \in At("act"), w \in At("wake") :
           Is(a, "act", "failed") /\ a < w /\ w < i
    /\ \A i \in At("mouse") :
         FallbackFailedRetryable(i) => SequenceRunAgain(i)

\* C13, amended: in click, a direct click that fails is followed at once, in
\* the same attempt and with no delay in between, by the bounding-box
\* fallback; a fallback click that fails with a retryable error while
\* attempts remain makes the whole click sequence run again, from the
\* visibility wait, after one backoff delay.
C13_FallbackInSameAttempt ==
  action = "click" =>
    /\ \A i \in At("act") :
         Is(i, "act", "failed") =>
           /\ Len(trace) = i => pc = "fn" /\ step = "boundingBox"
           /\ Len(trace) > i =>
                /\ trace[i + 1].ev = "boundingBox"
                /\ trace[i + 1].attempt = trace[i].attempt
    /\ \A i \in At("mouse") :
         FallbackFailedRetryable(i) => SequenceRunAgain(i)

C13_Witness ==
  /\ action = "click"
  /\ pc = "returned"
  /\ \E i \in At("mouse") :
       /\ FallbackFailedRetryable(i)
       /\ trace[i].attempt = 1
       /\ EarlierInAttempt(i, "act", "failed")
  /\ Count("fn") = 2

\* C14: in click, once the direct click has failed and boundingBox() has
\* returned null, click fails at once with the Bounding box not found
\* error: the body is not called again and no retry delay is computed or
\* slept.
C14_NoBoxFailsImmediately ==
  action = "click" =>
    \A i \in At("boundingBox") :
      Is(i, "boundingBox", "null") =>
        /\ \A j \in DOMAIN trace :
             j > i => trace[j].ev \notin { "fn", "computeDelay", "wake" }
        /\ pc # "sleep"
        /\ pc = "thrown" => thrown = "ErrBoundingBox"

\* C15: click dispatches a mouse click only in an attempt whose direct click
\* has already failed and whose boundingBox() call has returned a box, and
\* never in an attempt whose bounding box was unavailable; the point
\* clicked is the centre of that box: as far from its left edge as from its
\* right edge and as far from its top as from its bottom (in half pixels).
C15_MouseClickOnlyAtBoxCentre ==
  /\ \A i \in At("mouse") :
       /\ action = "click"
       /\ EarlierInAttempt(i, "act", "failed")
       /\ EarlierInAttempt(i, "boundingBox", "box")
       /\ ~EarlierInAttempt(i, "boundingBox", "null")
       /\ ~EarlierInAttempt(i, "boundingBox", "failed")
  /\ At("mouse") = {} => mouseAt = <<>>
  /\ mouseAt # <<>> =>
       /\ box # NoBox
       /\ mouseAt[1] - 2 * box.x = 2 * (box.x + box.width) - mouseAt[1]
       /\ mouseAt[2] - 2 * box.y = 2 * (box.y + box.height) - mouseAt[2]

C15_Witness ==
  /\ action = "click"
  /\ pc = "returned"
  /\ mouseAt # <<>>
  /\ box # NoBox
  /\ box.width = 5
  /\ Is(Len(trace) - 1, "mouse", "ok")

\* C16: in every attempt of click, a scroll-into-view step, failed or not,
\* is followed by the direct click of the same attempt, and no rejection of
\* the body comes from the scroll step, so the error click reports is never
\* the scroll error; a failed visibility wait ends the attempt with its
\* error, and that attempt has no direct click, no boundingBox call and no
\* mouse click.
C16_ScrollSwallowedWaitPropagates ==
  action = "click" =>
    /\ \A i \in At("scroll") :
         /\ Len(trace) = i => pc = "fn" /\ step = "act"
         /\ Len(trace) > i =>
              /\ trace[i + 1].ev = "act"
              /\ trace[i + 1].attempt = trace[i].attempt
    /\ \A i \in At("reject") : trace[i - 1].ev # "scroll"
    /\ (pc = "thrown" /\ At("reject") # {}) => thrown = trace[LastReject].val
    /\ \A i \in At("waitFor") :
         Is(i, "waitFor", "failed") =>
           /\ trace[i + 1].ev = "reject"
           /\ trace[i + 1].attempt = trace[i].attempt
           /\ ~InAttempt(i, { "scroll", "act", "boundingBox", "mouse" })

C16_Witness ==
  /\ action = "click"
  /\ pc = "returned"
  /\ \E i \in At("waitFor") : Is(i, "waitFor", "failed") /\ trace[i].attempt = 1
  /\ \E i \in At("scroll") :
       /\ Is(i, "scroll", "failed")
       /\ trace[i].attempt = 2
       /\ Is(i + 1, "act", "ok")

\* the body of attempt 1 rejected with the 'element not visible' error
FirstAttemptNotVisible ==
  \E i \in At("reject") :
    trace[i].attempt = 1 /\ trace[i].val = "ErrNotVisible"

\* C17: a click whose first attempt fails with the retryable 'element not
\* visible' error and whose second attempt succeeds returns normally, after
\* exactly two calls of the body and exactly one retry delay; with two
\* attempts allowed click does not give up after the first.
C17_SucceedsOnSecondAttempt ==
  (action = "click" /\ FirstAttemptNotVisible /\ retries >= 2) =>
    /\ pc = "thrown" => Count("fn") >= 2
    /\ (\E r \in At("resolve") : trace[r].attempt = 2) =>
         /\ pc = "returned"
         /\ Count("fn") = 2
         /\ Count("computeDelay") = 1
         /\ Count("wake") = 1

C17_Witness ==
  /\ action = "click"
  /\ FirstAttemptNotVisible
  /\ pc = "returned"
  /\ \E r \in At("resolve") : trace[r].attempt = 2
  /\ Count("fn") = 2

\* ------------------------------------------------------------------- C18
\* the methods C18 is about
SimpleActions ==
  { "fill", "type", "selectOption", "check", "uncheck", "hover", "focus",
    "press" }

\* C18: in every attempt of fill, type, selectOption, check, uncheck, hover,
\* focus and press the body runs wait-for-visible, then the scroll, then the
\* action, with no bounding-box fallback: the action of an attempt comes
\* after a successful visibility wait and a scroll of that same attempt, in
\* that order.
C18_WaitThenScrollThenAct ==
  action \in SimpleActions =>
    /\ At("boundingBox") = {} /\ At("mouse") = {}
    /\ \A i \in At("act") :
         \E w \in At("waitFor"), sc \in At("scroll") :
           /\ w < sc /\ sc < i
           /\ Is(w, "waitFor", "ok")
           /\ trace[w].attempt = trace[i].attempt
           /\ trace[sc].attempt = trace[i].attempt

\* ------------------------------------------------------------ C19 .. C20
\* poll i was taken while the elapsed time was below the timeout and read a
\* text that contains the expected substring
GoodPoll(i) ==
  /\ polls[i].elapsed < waitArgs.timeout
  /\ polls[i].text # Null
  /\ Includes(polls[i].text, waitArgs.expected)

\* C19: waitForText returns normally if and only if some poll taken while
\* the elapsed time was below the timeout read a text containing the
\* expected substring; a null or failed read is no match and is followed by
\* one sleep; otherwise, and with a timeout <= 0 without any poll, it throws
\* the timeout Error.
C19_ReturnsIffPollMatched ==
  waitOp = "waitForText" =>
    /\ pc = "returned" <=> \E i \in DOMAIN polls : GoodPoll(i)
    /\ pc = "returned" => GoodPoll(Len(polls)) /\ waitErr = NoError
    /\ pc = "thrown" =>
         /\ waitErr # NoError
         /\ waitErr.isError
         /\ Includes(waitErr.text, <<"T","i","m","e","o","u","t"," ","w","a","i","t","i","n","g"," ","f","o","r"," ","t","e","x","t">>)
    /\ \A i \in DOMAIN polls : polls[i].elapsed < waitArgs.timeout
    /\ waitArgs.timeout <= 0 =>
         polls = <<>> /\ pc \in { "while", "thrown" }
    /\ pc = "sleep" => polls # <<>> /\ ~GoodPoll(Len(polls))

C19_Witness ==
  /\ waitOp = "waitForText"
  /\ pc = "returned"
  /\ Len(polls) = 2
  /\ polls[1].text = Null
  /\ GoodPoll(2)
  /\ polls[2].elapsed > 0

\* C19, the other direction: no poll matched, or none was taken, and the
\* timeout Error was thrown
C19_WitnessThrown ==
  /\ waitOp = "waitForText"
  /\ pc = "thrown"
  /\ waitArgs.timeout = MaxTimeout
  /\ polls # <<>>

\* a wait has timed out: waitForText threw, or the wait for visible or
\* hidden was rejected with the library's timeout error
TimedOut ==
  /\ waitOp # None
  /\ pc = "thrown"
  /\ waitOp # "waitForText" => error = "ErrTimeout"

C21_GetAfterSetReturnsValue ==
  [][ (lastOp.op = "set" /\ lastOp'.op = "get" /\ lastOp'.key = lastOp.key)
        => lastOp'.ret = lastOp.val ]_vars

\* C22: for every key k and every earlier sequence of calls, a
\* Runtime.has(k) that comes right after Runtime.remove(k) returns false and
\* a Runtime.get(k) that comes right after it returns undefined.
C22_AbsentAfterRemove ==
  [][ (lastOp.op = "remove" /\ lastOp'.key = lastOp.key) =>
        /\ lastOp'.op = "has" => lastOp'.ret = "false"
        /\ lastOp'.op = "get" => lastOp'.ret = Undefined ]_vars

\* C23: Runtime.has(k) returns true exactly when an entry for k exists: k
\* has been set, with any value, undefined included, and has not been
\* removed or cleared since.
C23_HasIsExistenceCheck ==
  lastOp.op = "has" =>
    (lastOp.ret = "true" <=> ideal[lastOp.key] # Absent)

\* C24: for every key, whatever its name, that has not been set since the
\* start or the last clear(), get returns undefined and has returns false.
C24_EmptyUntilSet ==
  (lastOp.op \in { "get", "has" } /\ lastOp.key \notin touched) =>
    /\ lastOp.op = "get" => lastOp.ret = Undefined
    /\ lastOp.op = "has" => lastOp.ret = "false"

\* C25: under every interleaving of the calls of two flows, each get(k)
\* returns the value of the most recent set(k) in the interleaved order, or
\* undefined if a remove or clear came later: no write is lost or partly
\* applied.
C25_LastWriteWins ==
  (lastOp.op = "get" /\ lastOp.key \in everSet) =>
    lastOp.ret =
      IF ideal[lastOp.key] # Absent THEN ideal[lastOp.key] ELSE Undefined

\* ------------------------------------------------------------------- C30
\* C30: Runtime.set(k, v) and Runtime.remove(k) change the results of get
\* and has for no key other than k; get, has and dump change nothing.
C30_OnlyTheKeyChanges ==
  [][ /\ lastOp'.op \in { "set", "remove" } =>
           \A j \in Keys \ { lastOp'.key } :
             Lookup(store', proto', j) = Lookup(store, proto, j)
      /\ lastOp'.op \in { "get", "has", "dump" } =>
           store' = store /\ proto' = proto ]_vars

\* ---------------------------------------------------------------------- C28
\* C28: when retry is called with retries <= 0 the operation is never
\* invoked, no delay is computed or slept, and retry throws the value
\* undefined (lastError was never assigned): the only step it takes is the
\* throw of line 155
C28_NoAttemptWhenRetriesNotPositive ==
  retries <= 0 =>
    /\ Count("fn") = 0
    /\ Count("computeDelay") = 0
    /\ Count("wake") = 0
    /\ delay = 0
    /\ pc \in { "for", "thrown" }
    /\ pc = "for" => trace = <<>>
    /\ pc = "thrown" =>
          /\ thrown = Undefined
          /\ lastError = Undefined
          /\ trace = << [ ev |-> "exhausted", attempt |-> 1,
                          val |-> Undefined ] >>
\* retry was called with retries <= 0 and has thrown
C28_Witness ==
  /\ Has("retries")
  /\ retries <= 0
  /\ pc = "thrown"
  /\ thrown = Undefined

\* ---------------------------------------------------------------------- C29
\* the event at position i is a click dispatch that completed without error
ClickDone(i) == Is(i, "act", "ok") \/ Is(i, "mouse", "ok")
\* the event at position i is a click dispatch, of either kind
ClickDispatch(i) == trace[i].ev \in { "act", "mouse" }
\* C29: in a click call that has returned, exactly one click dispatch
\* completed without error, it is the last step of the body (only the
\* return follows) and no click is dispatched after it; and in an attempt
\* whose direct click succeeded the bounding box is not queried and no
\* coordinate click is dispatched
C29_OneClickThenReturn ==
  action = "click" =>
    /\ pc = "returned" =>
          /\ Cardinality({ i \in DOMAIN trace : ClickDone(i) }) = 1
          /\ Len(trace) >= 2
          /\ ClickDone(Len(trace) - 1)
          /\ trace[Len(trace)].ev = "resolve"
          /\ \A i \in DOMAIN trace : \A j \in DOMAIN trace :
                (ClickDone(i) /\ j > i) => ~ClickDispatch(j)
    /\ \A i \in DOMAIN trace :
          Is(i, "act", "ok") => ~InAttempt(i, { "boundingBox", "mouse" })
\* a click call returned through the direct click on its second attempt,
\* after a first attempt whose direct click and fallback click both failed
C29_Witness ==
  /\ action = "click"
  /\ pc = "returned"
  /\ attempt = 2
  /\ Is(Len(trace) - 1, "act", "ok")
  /\ \E i \in DOMAIN trace : Is(i, "mouse", "failed")
  /\ \E i \in DOMAIN trace : Is(i, "act", "failed")
\* a click call returned through the coordinate click
C29_WitnessFallback ==
  /\ action = "click"
  /\ pc = "returned"
  /\ Is(Len(trace) - 1, "mouse", "ok")

\* ---------------------------------------------------------------------- C26
\* C26: handle and handleAsync never swallow an error. handle returns
\* exactly when the wrapped function resolved, with its result, and throws
\* exactly when it rejected, the very value it rejected with; handleAsync
\* never returns and whatever it throws is the error it was given, whether
\* the screenshot was skipped, taken or failed; and the error is logged
\* before it is thrown
C26_HandlersNeverSwallow ==
  /\ (hOp = "handle" /\ pc = "returned") =>
        /\ fnOutcome # NoOutcome
        /\ fnOutcome[1] = "resolved"
        /\ result = fnOutcome[2]
        /\ hLog = <<>>
  /\ (hOp = "handle" /\ fnOutcome # NoOutcome /\ fnOutcome[1] = "rejected") =>
        /\ pc = "thrown"
        /\ thrown = fnOutcome[2]
        /\ hLog = logError(ThrownValue(fnOutcome[2]), HandleContext)
  /\ hOp = "handleAsync" =>
        /\ pc # "returned"
        /\ pc = "thrown" =>
              /\ thrown = error
              /\ Len(hLog) >= 1
              /\ SubSeq(hLog, 1, Len(logError(ThrownValue(error), HandleContext)))
                    = logError(ThrownValue(error), HandleContext)
\* handleAsync has thrown the error it was given after the screenshot
\* capture failed with another error
C26_Witness ==
  /\ hOp = "handleAsync"
  /\ pc = "thrown"
  /\ thrown = "ErrNotVisible"
  /\ hLog[Len(hLog)] = FailedCaptureLine(ThrownValue("ErrTimeout"))
\* handle has rethrown the string its function rejected with
C26_WitnessHandle ==
  /\ hOp = "handle"
  /\ pc = "thrown"
  /\ thrown = "StrElementDetached"
  /\ Len(hLog) = 1

\* ---------------------------------------------------------------------- C27
\* the number of invocations retry allows: retries, and none when retries
\* is not positive
MaxInvocations == IF retries > 0 THEN retries ELSE 0
\* C27: retry always terminates. When every invocation of the operation,
\* of the onRetry callback and of the sleep terminates, retry eventually
\* returns a value or throws, and it never invokes the operation more than
\* `retries` times
C27_RetryTerminates ==
  /\ <>(pc \in { "returned", "thrown" })
  /\ [](Count("fn") <= MaxInvocations)
\* retry has thrown after using every attempt, with a sleep and an onRetry
\* callback between the attempts
C27_Witness ==
  /\ pc = "thrown"
  /\ retries = MaxRetries
  /\ Count("fn") = retries
  /\ Count("wake") = retries - 1
  /\ Count("onRetry") >= 1

====
